---- MODULE Spec2Model ----
(***************************************************************************)
(* A model of agent_communication.py: the ACLMessage codec (serialize and  *)
(* parse), the EventLogger and the Agent send / receive / dispatch logic.  *)
(*                                                                         *)
(* Text is a sequence of characters.  A character is a one-character       *)
(* string; a character outside printable ASCII other than tab, newline,    *)
(* form feed and carriage return is written by its code point, "U+00E9".   *)
(* A byte is written as the Latin-1 character of the same value, which is  *)
(* how the unicode_escape codec decodes it.                                *)
(***************************************************************************)
EXTENDS Integers, Sequences, FiniteSets, TLC

VARIABLES
    entries,    \* EventLogger.entries: the shared event record, a list of lines
    current,    \* EventLogger.current: seconds since 2026-01-01 00:00:00
    agents,     \* the Agent objects: each one's name and handlers
    nOps,       \* how many calls have been made (bounds the exploration)
    last        \* the last call: its arguments, and what it returned or raised

vars == <<entries, current, agents, nOps, last>>

(***************************************************************************)
(* Characters and the str methods the program uses                         *)
(***************************************************************************)
LowerLetters == <<"a", "b", "c", "d", "e", "f", "g", "h", "i", "j", "k", "l", "m",
                  "n", "o", "p", "q", "r", "s", "t", "u", "v", "w", "x", "y", "z">>

UpperLetters == <<"A", "B", "C", "D", "E", "F", "G", "H", "I", "J", "K", "L", "M",
                  "N", "O", "P", "Q", "R", "S", "T", "U", "V", "W", "X", "Y", "Z">>

Digits == <<"0", "1", "2", "3", "4", "5", "6", "7", "8", "9">>

HexLetters == <<"a", "b", "c", "d", "e", "f">>

Ascii == <<" ", "!", "\"", "#", "$", "%", "&", "'", "(", ")", "*", "+", ",", "-", ".", "/",
           "0", "1", "2", "3", "4", "5", "6", "7", "8", "9", ":", ";", "<", "=", ">", "?",
           "@", "A", "B", "C", "D", "E", "F", "G", "H", "I", "J", "K", "L", "M", "N", "O",
           "P", "Q", "R", "S", "T", "U", "V", "W", "X", "Y", "Z", "[", "\\", "]", "^", "_",
           "U+0060", "a", "b", "c", "d", "e", "f", "g", "h", "i", "j", "k", "l", "m", "n", "o",
           "p", "q", "r", "s", "t", "u", "v", "w", "x", "y", "z", "{", "|", "}", "~">>

Range(f) == {f[i] : i \in DOMAIN f}

IndexOf(f, c) == CHOOSE i \in DOMAIN f : f[i] = c

MinOf(S) == CHOOSE x \in S : \A y \in S : x <= y

MaxOf(S) == CHOOSE x \in S : \A y \in S : y <= x

\* A whitespace class of the space alone.
Whitespace_space_only == {" "}

\* The characters str.isspace and the pattern's \s accept.
Whitespace == {" ", "\t", "\n", "\r", "\f", "U+000B", "U+001C", "U+0085", "U+00A0"}

\* The characters the pattern's \w accepts: alphanumerics (Unicode ones
\* included) and the underscore.
WordChars == Range(LowerLetters) \cup Range(UpperLetters) \cup Range(Digits)
             \cup {"_", "U+00E9", "U+00C9", "U+00C3"}

\* The pattern's [\w-].
TokenChars == WordChars \cup {"-"}

\* chr(n).
RECURSIVE HexText(_, _)
HexText(n, width) ==
    IF width = 0 THEN ""
    ELSE HexText(n \div 16, width - 1)
         \o (IF (n % 16) < 10 THEN Digits[(n % 16) + 1] ELSE UpperLetters[(n % 16) - 9])

Chr(n) ==
    IF n >= 32 /\ n <= 126 THEN Ascii[n - 31]
    ELSE CASE n = 9 -> "\t"
           [] n = 10 -> "\n"
           [] n = 12 -> "\f"
           [] n = 13 -> "\r"
           [] OTHER -> "U+" \o HexText(n, IF n > 65535 THEN 6 ELSE 4)

\* str.upper, one character at a time.
upper_char(c) ==
    IF c \in Range(LowerLetters) THEN UpperLetters[IndexOf(LowerLetters, c)]
    ELSE IF c = "U+00E9" THEN "U+00C9"
    ELSE c

upper(s) == [i \in 1..Len(s) |-> upper_char(s[i])]

\* str.replace(old, new) for a one-character old.
RECURSIVE replace(_, _, _)
replace(s, old, new) ==
    IF s = <<>> THEN <<>>
    ELSE (IF Head(s) = old THEN new ELSE <<Head(s)>>) \o replace(Tail(s), old, new)

\* str.strip().
strip(s) ==
    LET keep == {i \in 1..Len(s) : s[i] \notin Whitespace}
    IN  IF keep = {} THEN <<>> ELSE SubSeq(s, MinOf(keep), MaxOf(keep))

\* str(n) for a natural number.
RECURSIVE Decimal(_)
Decimal(n) ==
    IF n < 10 THEN <<Digits[n + 1]>>
    ELSE Decimal(n \div 10) \o <<Digits[(n % 10) + 1]>>

\* bytes(s, "utf-8"): ASCII is one byte, U+00E9 is the bytes C3 A9.
utf8_char(c) ==
    CASE c = "U+00E9" -> <<"U+00C3", "U+00A9">>
      [] c = "U+00C9" -> <<"U+00C3", "U+0089">>
      [] c = "U+00C3" -> <<"U+00C3", "U+0083">>
      [] c = "U+00A9" -> <<"U+00C2", "U+00A9">>
      [] c = "U+0085" -> <<"U+00C2", "U+0085">>
      [] c = "U+00A0" -> <<"U+00C2", "U+00A0">>
      [] OTHER -> <<c>>

RECURSIVE utf8(_)
utf8(s) == IF s = <<>> THEN <<>> ELSE utf8_char(Head(s)) \o utf8(Tail(s))

(***************************************************************************)
(* ACLMessage: the codec                                                   *)
(***************************************************************************)
\* ALLOWED_PERFORMATIVES.
REQUEST == <<"R", "E", "Q", "U", "E", "S", "T">>

INFORM == <<"I", "N", "F", "O", "R", "M">>

\* An allowed set with a performative no handler is registered for.
ALLOWED_PERFORMATIVES_with_propose == {REQUEST, INFORM, <<"P", "R", "O", "P", "O", "S", "E">>}

ALLOWED_PERFORMATIVES == {REQUEST, INFORM}

\* The dataclass ACLMessage.
ACLMessage(performative, sender, receiver, content) ==
    [performative |-> performative, sender |-> sender,
     receiver |-> receiver, content |-> content]

\* serialize with the two replacements in the wrong order: the backslash
\* that escapes a quote is doubled again.
serialize_quotes_first(m) ==
    LET escaped_content ==
            replace(replace(m.content, "\"", <<"\\", "\"">>), "\\", <<"\\", "\\">>)
    IN  <<"(", "p", "e", "r", "f", "o", "r", "m", "a", "t", "i", "v", "e", " ">>
        \o upper(m.performative)
        \o <<" ", ":", "s", "e", "n", "d", "e", "r", " ">> \o m.sender
        \o <<" ", ":", "r", "e", "c", "e", "i", "v", "e", "r", " ">> \o m.receiver
        \o <<" ", ":", "c", "o", "n", "t", "e", "n", "t", " ", "\"">> \o escaped_content
        \o <<"\"", ")">>

\* ACLMessage.serialize: backslashes are doubled first, then quotes escaped.
serialize(m) ==
    LET escaped_content ==
            replace(replace(m.content, "\\", <<"\\", "\\">>), "\"", <<"\\", "\"">>)
    IN  <<"(", "p", "e", "r", "f", "o", "r", "m", "a", "t", "i", "v", "e", " ">>
        \o upper(m.performative)
        \o <<" ", ":", "s", "e", "n", "d", "e", "r", " ">> \o m.sender
        \o <<" ", ":", "r", "e", "c", "e", "i", "v", "e", "r", " ">> \o m.receiver
        \o <<" ", ":", "c", "o", "n", "t", "e", "n", "t", " ", "\"">> \o escaped_content
        \o <<"\"", ")">>

\* Pattern pieces.  A position is an index into the text; 0 is "no match".
\* A literal at position i: the position after it.
MatchLit(s, i, lit) ==
    IF i > 0 /\ i + Len(lit) - 1 <= Len(s) /\ SubSeq(s, i, i + Len(lit) - 1) = lit
    THEN i + Len(lit)
    ELSE 0

\* One or more characters of a class at position i, greedy: the position
\* after the run.  The classes that follow one another in ACL_PATTERN are
\* disjoint, so the greedy run is the only one a match can use.
MatchPlus(s, i, class) ==
    IF i = 0 \/ i > Len(s) THEN 0
    ELSE IF s[i] \notin class THEN 0
    ELSE LET stops == {j \in i..Len(s) : s[j] \notin class}
         IN  IF stops = {} THEN Len(s) + 1 ELSE MinOf(stops)

\* A content group that takes a backslash only with a quote or another
\* backslash after it.
RECURSIVE MatchContent_strict(_, _)
MatchContent_strict(s, i) ==
    IF i > Len(s) THEN i
    ELSE IF s[i] = "\"" THEN i
    ELSE IF s[i] = "\\"
         THEN IF i + 1 <= Len(s) /\ s[i + 1] \in {"\"", "\\"}
              THEN MatchContent_strict(s, i + 2) ELSE i
    ELSE MatchContent_strict(s, i + 1)

\* (?:\\.|[^"\\])* from position i: the position of the first character
\* that neither alternative accepts.  A backslash takes the next character
\* with it unless that character is a newline ("." does not match one).
RECURSIVE MatchContent(_, _)
MatchContent(s, i) ==
    IF i > Len(s) THEN i
    ELSE IF s[i] = "\"" THEN i
    ELSE IF s[i] = "\\"
         THEN IF i + 1 <= Len(s) /\ s[i + 1] # "\n" THEN MatchContent(s, i + 2) ELSE i
    ELSE MatchContent(s, i + 1)

\* The pattern's final $: the end of the text, or just before a last newline.
MatchEnd(s, i) == i > 0 /\ (i = Len(s) + 1 \/ (i = Len(s) /\ s[i] = "\n"))

\* ACL_PATTERN.match(s): whether it matches and, if so, the named groups.
ACL_PATTERN(s) ==
    LET p1  == MatchLit(s, 1, <<"(", "p", "e", "r", "f", "o", "r", "m", "a", "t", "i", "v", "e">>)
        p2  == MatchPlus(s, p1, Whitespace)
        p3  == MatchPlus(s, p2, WordChars)
        p4  == MatchPlus(s, p3, Whitespace)
        p5  == MatchLit(s, p4, <<":", "s", "e", "n", "d", "e", "r">>)
        p6  == MatchPlus(s, p5, Whitespace)
        p7  == MatchPlus(s, p6, TokenChars)
        p8  == MatchPlus(s, p7, Whitespace)
        p9  == MatchLit(s, p8, <<":", "r", "e", "c", "e", "i", "v", "e", "r">>)
        p10 == MatchPlus(s, p9, Whitespace)
        p11 == MatchPlus(s, p10, TokenChars)
        p12 == MatchPlus(s, p11, Whitespace)
        p13 == MatchLit(s, p12, <<":", "c", "o", "n", "t", "e", "n", "t">>)
        p14 == MatchPlus(s, p13, Whitespace)
        p15 == MatchLit(s, p14, <<"\"">>)
        p16 == IF p15 = 0 THEN 0 ELSE MatchContent(s, p15)
        p17 == MatchLit(s, p16, <<"\"", ")">>)
    IN  IF MatchEnd(s, p17)
        THEN [matched |-> TRUE,
              performative |-> SubSeq(s, p2, p3 - 1),
              sender |-> SubSeq(s, p6, p7 - 1),
              receiver |-> SubSeq(s, p10, p11 - 1),
              content |-> SubSeq(s, p15, p16 - 1)]
        ELSE [matched |-> FALSE, performative |-> <<>>, sender |-> <<>>,
              receiver |-> <<>>, content |-> <<>>]

\* The unicode_escape codec, over the bytes of the content group.
OctDigits == {"0", "1", "2", "3", "4", "5", "6", "7"}

HexDigits == Range(Digits) \cup Range(HexLetters) \cup {"A", "B", "C", "D", "E", "F"}

DigitVal(c) ==
    IF c \in Range(Digits) THEN IndexOf(Digits, c) - 1
    ELSE IF c \in Range(HexLetters) THEN IndexOf(HexLetters, c) + 9
    ELSE IndexOf(UpperLetters, c) + 9

\* How many of the bytes at i, i+1, ... (at most max) lie in class, counted
\* up to the first that does not.
RunLen(b, i, class, max) ==
    MaxOf({k \in 0..max : \A j \in 0..(k - 1) : i + j <= Len(b) /\ b[i + j] \in class})

RECURSIVE NumVal(_, _, _, _)
NumVal(b, i, n, base) ==
    IF n = 0 THEN 0 ELSE NumVal(b, i, n - 1, base) * base + DigitVal(b[i + n - 1])

\* \a \b \f \n \r \t \v.
SimpleEscapes == {"a", "b", "f", "n", "r", "t", "v"}

SimpleEscape(c) ==
    CASE c = "a" -> Chr(7) [] c = "b" -> Chr(8) [] c = "f" -> Chr(12) [] c = "n" -> Chr(10)
      [] c = "r" -> Chr(13) [] c = "t" -> Chr(9) [] c = "v" -> Chr(11)

Decoded(out) == [ok |-> TRUE, out |-> out, start |-> 0, end |-> 0, reason |-> <<>>]

\* A UnicodeDecodeError: the 0-based positions it reports and its reason.
DecodeError(start, end, reason) ==
    [ok |-> FALSE, out |-> <<>>, start |-> start, end |-> end, reason |-> reason]

Emit(out, rest) == IF rest.ok THEN [rest EXCEPT !.out = out \o rest.out] ELSE rest

TruncatedReason(c) ==
    CASE c = "x" -> <<"t", "r", "u", "n", "c", "a", "t", "e", "d", " ", "\\", "x", "X", "X",
                      " ", "e", "s", "c", "a", "p", "e">>
      [] c = "u" -> <<"t", "r", "u", "n", "c", "a", "t", "e", "d", " ", "\\", "u", "X", "X",
                      "X", "X", " ", "e", "s", "c", "a", "p", "e">>
      [] c = "U" -> <<"t", "r", "u", "n", "c", "a", "t", "e", "d", " ", "\\", "U", "X", "X",
                      "X", "X", "X", "X", "X", "X", " ", "e", "s", "c", "a", "p", "e">>

MalformedN == <<"m", "a", "l", "f", "o", "r", "m", "e", "d", " ", "\\", "N", " ", "c", "h",
                "a", "r", "a", "c", "t", "e", "r", " ", "e", "s", "c", "a", "p", "e">>

UnknownName == <<"u", "n", "k", "n", "o", "w", "n", " ", "U", "n", "i", "c", "o", "d", "e",
                 " ", "c", "h", "a", "r", "a", "c", "t", "e", "r", " ", "n", "a", "m", "e">>

\* \N at byte i (the backslash).  The Unicode name table is not part of the
\* model: every non-empty name is reported unknown, and no modelled text
\* holds a "{".
DecodeNamed(b, i) ==
    IF i + 2 > Len(b) THEN DecodeError(i - 1, Len(b) - 1, MalformedN)
    ELSE IF b[i + 2] # "{" THEN DecodeError(i - 1, i, MalformedN)
    ELSE LET closes == {k \in (i + 3)..Len(b) : b[k] = "}"}
         IN  IF closes = {} THEN DecodeError(i - 1, Len(b) - 1, MalformedN)
             ELSE IF MinOf(closes) = i + 3 THEN DecodeError(i - 1, i + 1, MalformedN)
             ELSE DecodeError(i - 1, MinOf(closes) - 1, UnknownName)

RECURSIVE unicode_escape(_, _)
unicode_escape(b, i) ==
    IF i > Len(b) THEN Decoded(<<>>)
    ELSE IF b[i] # "\\" THEN Emit(<<b[i]>>, unicode_escape(b, i + 1))
    ELSE IF i = Len(b)
         THEN DecodeError(i - 1, i - 1, <<"\\", " ", "a", "t", " ", "e", "n", "d", " ", "o",
                                          "f", " ", "s", "t", "r", "i", "n", "g">>)
    ELSE LET c == b[i + 1] IN
         CASE c = "\n" -> unicode_escape(b, i + 2)
           [] c \in {"\\", "'", "\""} -> Emit(<<c>>, unicode_escape(b, i + 2))
           [] c \in SimpleEscapes -> Emit(<<SimpleEscape(c)>>, unicode_escape(b, i + 2))
           [] c \in OctDigits ->
                LET n == RunLen(b, i + 1, OctDigits, 3)
                IN  Emit(<<Chr(NumVal(b, i + 1, n, 8))>>, unicode_escape(b, i + 1 + n))
           [] c \in {"x", "u", "U"} ->
                LET want == CASE c = "x" -> 2 [] c = "u" -> 4 [] c = "U" -> 8
                    n == RunLen(b, i + 2, HexDigits, want)
                IN  IF n < want THEN DecodeError(i - 1, i + n, TruncatedReason(c))
                    ELSE IF NumVal(b, i + 2, n, 16) > 1114111
                    THEN DecodeError(i - 1, i + 8,
                             <<"i", "l", "l", "e", "g", "a", "l", " ", "U", "n", "i", "c", "o",
                               "d", "e", " ", "c", "h", "a", "r", "a", "c", "t", "e", "r">>)
                    ELSE Emit(<<Chr(NumVal(b, i + 2, n, 16))>>, unicode_escape(b, i + 2 + n))
           [] c = "N" -> DecodeNamed(b, i)
           [] OTHER -> Emit(<<"\\", c>>, unicode_escape(b, i + 2))

\* str(exc) of the UnicodeDecodeError.
DecodeErrorText(e) ==
    IF e.start = e.end
    THEN <<"'", "u", "n", "i", "c", "o", "d", "e", "e", "s", "c", "a", "p", "e", "'", " ",
           "c", "o", "d", "e", "c", " ", "c", "a", "n", "'", "t", " ", "d", "e", "c", "o",
           "d", "e", " ", "b", "y", "t", "e", " ", "0", "x", "5", "c", " ", "i", "n", " ",
           "p", "o", "s", "i", "t", "i", "o", "n", " ">>
         \o Decimal(e.start) \o <<":", " ">> \o e.reason
    ELSE <<"'", "u", "n", "i", "c", "o", "d", "e", "e", "s", "c", "a", "p", "e", "'", " ",
           "c", "o", "d", "e", "c", " ", "c", "a", "n", "'", "t", " ", "d", "e", "c", "o",
           "d", "e", " ", "b", "y", "t", "e", "s", " ", "i", "n", " ", "p", "o", "s", "i",
           "t", "i", "o", "n", " ">>
         \o Decimal(e.start) \o <<"-">> \o Decimal(e.end) \o <<":", " ">> \o e.reason

NoMessage == ACLMessage(<<>>, <<>>, <<>>, <<>>)

\* What parse does: return a message, or raise exc (a ValueError or its
\* subclass UnicodeDecodeError) with str(exc) = detail.
Returned(m) == [ok |-> TRUE, exc |-> "", detail |-> <<>>, message |-> m]

Raised(exc, detail) == [ok |-> FALSE, exc |-> exc, detail |-> detail, message |-> NoMessage]

\* ACLMessage.parse, its last statements: the content group is unescaped
\* and the message built.
parse_content(performative, match, content) ==
    IF ~content.ok
    THEN Raised("UnicodeDecodeError", DecodeErrorText(content))
    ELSE Returned(ACLMessage(performative, match.sender, match.receiver, content.out))

\* parse without the membership test on the performative.
parse_performative_unchecked(performative, match) ==
    parse_content(performative, match, unicode_escape(utf8(match.content), 1))

\* ACLMessage.parse, from the upper-cased performative on.
parse_performative(performative, match) ==
    IF performative \notin ALLOWED_PERFORMATIVES
    THEN Raised("ValueError",
                <<"U", "n", "s", "u", "p", "p", "o", "r", "t", "e", "d", " ", "p", "e",
                  "r", "f", "o", "r", "m", "a", "t", "i", "v", "e", ":", " ">>
                \o performative)
    ELSE parse_content(performative, match, unicode_escape(utf8(match.content), 1))

\* ACLMessage.parse, from the result of the match on.
parse_match(raw_message, match) ==
    IF ~match.matched
    THEN Raised("ValueError",
                <<"I", "n", "v", "a", "l", "i", "d", " ", "A", "C", "L", " ", "m", "e",
                  "s", "s", "a", "g", "e", " ", "f", "o", "r", "m", "a", "t", ":", " ">>
                \o raw_message)
    ELSE parse_performative(upper(match.performative), match)

\* ACLMessage.parse.
parse(raw_message) == parse_match(raw_message, ACL_PATTERN(strip(raw_message)))

(***************************************************************************)
(* EventLogger                                                             *)
(***************************************************************************)
\* datetime(2026, 1, 1, 10, 0, 0), in seconds since 2026-01-01 00:00:00.
StartTime == 36000

TwoDigits(n) == <<Digits[(n \div 10) + 1], Digits[(n % 10) + 1]>>

\* strftime('%Y-%m-%d %H:%M:%S') of a time within January 2026.
strftime(t) ==
    <<"2", "0", "2", "6", "-", "0", "1", "-">> \o TwoDigits(1 + (t \div 86400))
    \o <<" ">> \o TwoDigits((t % 86400) \div 3600)
    \o <<":">> \o TwoDigits((t % 3600) \div 60)
    \o <<":">> \o TwoDigits(t % 60)

\* EventLogger.__init__ with no start_time.
EventLogger == [entries |-> <<>>, current |-> StartTime]

\* add with the clock left where it was.
add_clock_stopped(logger, agent_name, event) ==
    [entries |-> Append(logger.entries,
                        <<"[">> \o strftime(logger.current) \o <<"]", " ">>
                        \o agent_name \o <<":", " ">> \o event),
     current |-> logger.current]

\* add putting the new line in front of the record.
add_in_front(logger, agent_name, event) ==
    [entries |-> <<<<"[">> \o strftime(logger.current) \o <<"]", " ">>
                   \o agent_name \o <<":", " ">> \o event>> \o logger.entries,
     current |-> logger.current + 1]

\* EventLogger.add: one line appended, the clock advanced by one second.
add(logger, agent_name, event) ==
    [entries |-> Append(logger.entries,
                        <<"[">> \o strftime(logger.current) \o <<"]", " ">>
                        \o agent_name \o <<":", " ">> \o event),
     current |-> logger.current + 1]

(***************************************************************************)
(* Agent                                                                   *)
(***************************************************************************)
\* Agent.__init__: the handler table every agent is built with.
Agent(name) ==
    [name |-> name,
     handlers |-> (REQUEST :> "_handle_request") @@ (INFORM :> "_handle_inform")]

\* Agent.log.
log(self, logger, event) == add(logger, self.name, event)

\* A request handler that logs under the name of the message's sender, as a
\* reply made by the other agent would.
_handle_request_as_sender(self, logger, message) ==
    add(logger, message.sender,
        <<"P", "r", "o", "c", "e", "s", "s", "i", "n", "g", " ", "R", "E", "Q", "U", "E",
          "S", "T", " ", "a", "c", "t", "i", "o", "n", ":", " ">> \o message.content)

\* Agent._handle_request.
_handle_request(self, logger, message) ==
    log(self, logger,
        <<"P", "r", "o", "c", "e", "s", "s", "i", "n", "g", " ", "R", "E", "Q", "U", "E",
          "S", "T", " ", "a", "c", "t", "i", "o", "n", ":", " ">> \o message.content)

\* Agent._handle_inform.
_handle_inform(self, logger, message) ==
    log(self, logger,
        <<"A", "c", "k", "n", "o", "w", "l", "e", "d", "g", "e", "d", " ", "I", "N", "F",
          "O", "R", "M", " ", "u", "p", "d", "a", "t", "e", ":", " ">> \o message.content)

\* Calling a handler found in the table.
CallHandler(handler, self, logger, message) ==
    IF handler = "_handle_request" THEN _handle_request(self, logger, message)
    ELSE _handle_inform(self, logger, message)

\* An except clause that catches ValueError itself and none of its subclasses.
IsValueError_exact(exc) == exc = "ValueError"

\* issubclass(exc, ValueError): what receive's except clause catches.
IsValueError(exc) == exc \in {"ValueError", "UnicodeDecodeError"}

\* The lookup without the call: nothing is logged for the handler.
dispatch_without_call(self, logger, message) ==
    [logger |-> logger, raised |-> "", path |-> "DISPATCHED",
     handler |-> IF message.performative \in DOMAIN self.handlers
                 THEN self.handlers[message.performative] ELSE "none"]

\* Agent.receive, the handler lookup and call.  logger is the logger after
\* the "Received" entry.
dispatch(self, logger, message) ==
    IF message.performative \in DOMAIN self.handlers
    THEN [logger |-> CallHandler(self.handlers[message.performative], self, logger, message),
          raised |-> "", path |-> "DISPATCHED",
          handler |-> self.handlers[message.performative]]
    ELSE [logger |-> log(self, logger,
                         <<"N", "o", " ", "h", "a", "n", "d", "l", "e", "r", " ", "f", "o",
                           "r", " ", "p", "e", "r", "f", "o", "r", "m", "a", "t", "i", "v",
                           "e", ":", " ">> \o message.performative),
          raised |-> "", path |-> "NO_HANDLER", handler |-> "none"]

\* receive without the except clause: what parse raises leaves the call.
reject_propagating(self, logger, r) ==
    [logger |-> logger, raised |-> r.exc, path |-> "RAISED", handler |-> "none"]

\* Agent.receive, the except clause: the rejection is logged and the call
\* returns.  An exception the clause does not catch leaves the call.
reject(self, logger, r) ==
    IF IsValueError(r.exc)
    THEN [logger |-> log(self, logger,
                         <<"R", "e", "j", "e", "c", "t", "e", "d", " ", "m", "a", "l", "f",
                           "o", "r", "m", "e", "d", " ", "A", "C", "L", " ", "m", "e", "s",
                           "s", "a", "g", "e", " ", "|", " ">> \o r.detail),
          raised |-> "", path |-> "REJECTED", handler |-> "none"]
    ELSE [logger |-> logger, raised |-> r.exc, path |-> "RAISED", handler |-> "none"]

\* Agent.receive, the message is for another agent: logged, and the call
\* returns.
ignore(self, logger, message) ==
    [logger |-> log(self, logger,
                    <<"I", "g", "n", "o", "r", "e", "d", " ", "m", "e", "s", "s", "a", "g",
                      "e", " ", "f", "o", "r", " ">> \o message.receiver
                    \o <<" ", "f", "r", "o", "m", " ">> \o message.sender
                    \o <<" ", "|", " ">> \o message.content),
     raised |-> "", path |-> "IGNORED", handler |-> "none"]

\* accept with the handler called before the receipt is logged.
accept_handler_first(self, logger, message) ==
    [logger |-> log(self, dispatch(self, logger, message).logger,
                    <<"R", "e", "c", "e", "i", "v", "e", "d", " ">> \o message.performative
                    \o <<" ", "f", "r", "o", "m", " ">> \o message.sender
                    \o <<" ", "|", " ">> \o message.content),
     raised |-> "", path |-> "DISPATCHED", handler |-> self.handlers[message.performative]]

\* Agent.receive, the message is for this agent: the receipt is logged, then
\* the message dispatched.
accept(self, logger, message) ==
    dispatch(self,
             log(self, logger,
                 <<"R", "e", "c", "e", "i", "v", "e", "d", " ">> \o message.performative
                 \o <<" ", "f", "r", "o", "m", " ">> \o message.sender
                 \o <<" ", "|", " ">> \o message.content),
             message)

\* receive without the test of the receiver field.
receive_parsed_unaddressed(self, logger, r) ==
    IF ~r.ok THEN reject(self, logger, r) ELSE accept(self, logger, r.message)

\* Agent.receive, from the try statement on: r is what parse did.
receive_parsed(self, logger, r) ==
    IF ~r.ok THEN reject(self, logger, r)
    ELSE IF r.message.receiver # self.name THEN ignore(self, logger, r.message)
    ELSE accept(self, logger, r.message)

\* Agent.receive.  The result is the logger afterwards, the exception that
\* left the call ("" for a normal return), the path taken and the handler
\* invoked.
receive(self, logger, raw_message) == receive_parsed(self, logger, parse(raw_message))

\* send logging before it tests the sender field.
send_log_first(self, logger, other, message) ==
    IF message.sender # self.name
    THEN [logger |-> log(self, logger,
                         <<"S", "e", "n", "t", " ">> \o upper(message.performative)
                         \o <<" ", "t", "o", " ">> \o other.name
                         \o <<" ", "|", " ">> \o message.content),
          raised |-> "ValueError", path |-> "NONE", handler |-> "none",
          delivered |-> FALSE, raw |-> <<>>]
    ELSE receive(other,
                 log(self, logger,
                     <<"S", "e", "n", "t", " ">> \o upper(message.performative)
                     \o <<" ", "t", "o", " ">> \o other.name
                     \o <<" ", "|", " ">> \o message.content),
                 serialize(message))
         @@ [delivered |-> TRUE, raw |-> serialize(message)]

\* send refusing a message that is not addressed to the target.
send_to_addressee_only(self, logger, other, message) ==
    IF message.sender # self.name \/ message.receiver # other.name
    THEN [logger |-> logger, raised |-> "ValueError", path |-> "NONE", handler |-> "none",
          delivered |-> FALSE, raw |-> <<>>]
    ELSE receive(other,
                 log(self, logger,
                     <<"S", "e", "n", "t", " ">> \o upper(message.performative)
                     \o <<" ", "t", "o", " ">> \o other.name
                     \o <<" ", "|", " ">> \o message.content),
                 serialize(message))
         @@ [delivered |-> TRUE, raw |-> serialize(message)]

\* Agent.send.  delivered says whether other.receive was called, raw is the
\* text it was called with, and the other fields are what that call did.
send(self, logger, other, message) ==
    IF message.sender # self.name
    THEN [logger |-> logger, raised |-> "ValueError", path |-> "NONE", handler |-> "none",
          delivered |-> FALSE, raw |-> <<>>]
    ELSE receive(other,
                 log(self, logger,
                     <<"S", "e", "n", "t", " ">> \o upper(message.performative)
                     \o <<" ", "t", "o", " ">> \o other.name
                     \o <<" ", "|", " ">> \o message.content),
                 serialize(message))
         @@ [delivered |-> TRUE, raw |-> serialize(message)]

(***************************************************************************)
(* Bounds and the inputs the calls are made with                           *)
(***************************************************************************)
MaxOps == 2

MaxContentLen == 2

MaxBodyLen == 2

\* All texts over an alphabet up to a length.
Strings(alphabet, n) == UNION {[1..k -> alphabet] : k \in 0..n}

PlannerAgent == <<"P", "l", "a", "n", "n", "e", "r", "A", "g", "e", "n", "t">>

WorkerAgent == <<"W", "o", "r", "k", "e", "r", "A", "g", "e", "n", "t">>

OtherAgent == <<"O", "t", "h", "e", "r", "A", "g", "e", "n", "t">>

\* The two agents run_demo builds.
AgentIds == {"planner_agent", "worker_agent"}

\* The messages run_demo sends.
DemoRequest ==
    ACLMessage(REQUEST, PlannerAgent, WorkerAgent,
               <<"C", "o", "l", "l", "e", "c", "t", " ", "t", "e", "m", "p", "e", "r", "a",
                 "t", "u", "r", "e", " ", "r", "e", "a", "d", "i", "n", "g", "s", " ", "i",
                 "n", " ", "Z", "o", "n", "e", " ", "A">>)

DemoInform ==
    ACLMessage(INFORM, WorkerAgent, PlannerAgent,
               <<"Z", "o", "n", "e", " ", "A", " ", "r", "e", "a", "d", "i", "n", "g", "s",
                 " ", "c", "o", "m", "p", "l", "e", "t", "e", ":", " ", "a", "v", "g", "=",
                 "2", "4", ".", "3", "C">>)

\* A content with a quote and a backslash, and one that is not ASCII.
QuotedContent == <<"a", "\"", "\\", "n">>

AccentedContent == <<"U+00E9">>

Propose == <<"P", "R", "O", "P", "O", "S", "E">>

\* Messages handed to send: requests from either agent to either agent and
\* to a third name, replies in lower case, non-ASCII contents, run_demo's
\* two messages, an unsupported performative and a receiver that is not a
\* token.  Sent by the agent that is not their sender they are mismatches.
SendMessages ==
    {ACLMessage(REQUEST, s, r, QuotedContent) :
        s \in {PlannerAgent, WorkerAgent}, r \in {PlannerAgent, WorkerAgent, OtherAgent}}
    \cup {ACLMessage(<<"i", "n", "f", "o", "r", "m">>, PlannerAgent, WorkerAgent, QuotedContent),
          ACLMessage(<<"i", "n", "f", "o", "r", "m">>, WorkerAgent, PlannerAgent, QuotedContent),
          ACLMessage(REQUEST, PlannerAgent, WorkerAgent, AccentedContent),
          ACLMessage(INFORM, WorkerAgent, PlannerAgent, AccentedContent),
          DemoRequest, DemoInform,
          ACLMessage(Propose, PlannerAgent, WorkerAgent, <<"a">>),
          ACLMessage(REQUEST, WorkerAgent, <<"n", "o", " ", "o", "n", "e">>, <<"a">>)}

\* A wire text built piece by piece: seps[k] is what separates the k-th
\* pair of pieces.
WireText(lead, seps, performative, sender, receiver, body, trail) ==
    lead \o <<"(", "p", "e", "r", "f", "o", "r", "m", "a", "t", "i", "v", "e">> \o seps[1]
    \o performative \o seps[2] \o <<":", "s", "e", "n", "d", "e", "r">> \o seps[3]
    \o sender \o seps[4] \o <<":", "r", "e", "c", "e", "i", "v", "e", "r">> \o seps[5]
    \o receiver \o seps[6] \o <<":", "c", "o", "n", "t", "e", "n", "t">> \o seps[7]
    \o <<"\"">> \o body \o <<"\"", ")">> \o trail

SingleSpaces == [k \in 1..7 |-> <<" ">>]

\* Texts handed to receive directly: the ones the tests use, a valid one
\* with lax spacing, and ones whose content body holds backslash escapes.
ReceiveTexts ==
    {<<"n", "o", "t", " ", "a", "c", "l">>,
     WireText(<<>>, SingleSpaces, Propose, <<"A", "1">>, <<"A", "2">>,
              <<"h", "e", "l", "l", "o">>, <<>>),
     WireText(<<>>, SingleSpaces, REQUEST, PlannerAgent, OtherAgent,
              <<"I", "g", "n", "o", "r", "e", " ", "t", "h", "i", "s">>, <<>>),
     WireText(<<" ">>, [SingleSpaces EXCEPT ![2] = <<"\t", " ">>],
              <<"i", "n", "f", "o", "r", "m">>, PlannerAgent, WorkerAgent, <<"h", "i">>,
              <<"\n">>),
     WireText(<<>>, SingleSpaces, REQUEST, PlannerAgent, WorkerAgent, <<"\\", "x">>, <<>>),
     WireText(<<>>, SingleSpaces, INFORM, WorkerAgent, PlannerAgent, <<"a", "\\", "n">>, <<>>)}

(***************************************************************************)
(* The agents: calls of send and receive on two agents sharing one logger  *)
(***************************************************************************)
NoCall ==
    [op |-> "none", self |-> "none", other |-> "none", message |-> NoMessage,
     raw |-> <<>>, before |-> 0, clock |-> StartTime, raised |-> "",
     delivered |-> FALSE, path |-> "NONE", handler |-> "none"]

\* run_demo's first three lines: one logger, two agents.
Init ==
    /\ entries = EventLogger.entries
    /\ current = EventLogger.current
    /\ agents = [id \in AgentIds |->
                    IF id = "planner_agent" THEN Agent(PlannerAgent) ELSE Agent(WorkerAgent)]
    /\ nOps = 0
    /\ last = NoCall

\* agents[a].send(agents[t], m).
Send(a, t, m) ==
    /\ nOps < MaxOps
    /\ \E r \in {send(agents[a], [entries |-> entries, current |-> current], agents[t], m)} :
           /\ entries' = r.logger.entries
           /\ current' = r.logger.current
           /\ last' = [op |-> "send", self |-> a, other |-> t, message |-> m,
                       raw |-> r.raw, before |-> Len(entries), clock |-> current,
                       raised |-> r.raised, delivered |-> r.delivered,
                       path |-> r.path, handler |-> r.handler]
    /\ nOps' = nOps + 1
    /\ UNCHANGED agents

\* agents[a].receive(raw), called from outside as the tests do.
Receive(a, raw) ==
    /\ nOps < MaxOps
    /\ \E r \in {receive(agents[a], [entries |-> entries, current |-> current], raw)} :
           /\ entries' = r.logger.entries
           /\ current' = r.logger.current
           /\ last' = [op |-> "receive", self |-> a, other |-> "none", message |-> NoMessage,
                       raw |-> raw, before |-> Len(entries), clock |-> current,
                       raised |-> r.raised, delivered |-> FALSE,
                       path |-> r.path, handler |-> r.handler]
    /\ nOps' = nOps + 1
    /\ UNCHANGED agents

Next ==
    \/ \E a \in AgentIds, t \in AgentIds, m \in SendMessages : a # t /\ Send(a, t, m)
    \/ \E a \in AgentIds, raw \in ReceiveTexts : Receive(a, raw)

Spec == Init /\ [][Next]_vars

(***************************************************************************)
(* The codec alone: serialize and parse applied to bounded inputs.  The    *)
(* two are pure functions, so a behaviour makes one call, or one           *)
(* serialize followed by the parse of its result.                          *)
(***************************************************************************)
\* Characters of a message's content.
ContentAlphabet == {"n", "\\", "\"", "\n", "U+00E9"}

\* Characters of a wire text's content body.
BodyAlphabet == {"n", "x", "\\", "\"", "\n", "U+00E9"}

\* Messages to serialize: performatives in any case and an unsupported one,
\* senders and receivers that are tokens and that are not.
CodecMessages ==
    {ACLMessage(p, s, r, c) :
        p \in {<<"r", "e", "q", "u", "e", "s", "t">>, INFORM, <<"P", "r", "o", "p", "o", "s", "e">>},
        s \in {<<"A", "1">>, <<"a", " ", "b">>},
        r \in {<<"w", "-", "2">>, <<"B", "(", "3">>},
        c \in Strings(ContentAlphabet, MaxContentLen)}

\* What precedes and follows a wire text.
CodecMargins == {<< <<>>, <<>> >>, << <<" ">>, <<"\n">> >>, << <<>>, <<" ", "x">> >>}

CodecPerformatives == {REQUEST, <<"i", "n", "f", "o", "r", "m">>, Propose}

\* Separators: single spaces, or one separator replaced by something else.
CodecSeps ==
    {SingleSpaces}
    \cup {[SingleSpaces EXCEPT ![k] = sep] : k \in 1..7, sep \in {<<>>, <<"\t", "\n">>}}

\* Texts to parse: every content body with single spaces, and every choice
\* of separators with two bodies.
CodecTexts ==
    {WireText(lt[1], SingleSpaces, p, <<"A", "1">>, <<"A", "2">>, body, lt[2]) :
        lt \in CodecMargins, p \in CodecPerformatives,
        body \in Strings(BodyAlphabet, MaxBodyLen)}
    \cup {WireText(lt[1], seps, p, <<"A", "1">>, <<"w", "-", "2">>, body, lt[2]) :
            lt \in CodecMargins, seps \in CodecSeps, p \in CodecPerformatives,
            body \in {<<>>, <<"h", "i">>}}

NoResult == Raised("", <<>>)

\* m.serialize().
Serialize(m) ==
    /\ last.op = "none"
    /\ last' = [op |-> "serialize", message |-> m, raw |-> serialize(m),
                result |-> NoResult, roundtrip |-> FALSE]
    /\ UNCHANGED <<entries, current, agents, nOps>>

\* ACLMessage.parse(m.serialize()): the round trip of the tests.
ParseSerialized ==
    /\ last.op = "serialize"
    /\ last' = [op |-> "parse", message |-> last.message, raw |-> last.raw,
                result |-> parse(last.raw), roundtrip |-> TRUE]
    /\ UNCHANGED <<entries, current, agents, nOps>>

\* ACLMessage.parse(raw) of a text from outside.
ParseText(raw) ==
    /\ last.op = "none"
    /\ last' = [op |-> "parse", message |-> NoMessage, raw |-> raw,
                result |-> parse(raw), roundtrip |-> FALSE]
    /\ UNCHANGED <<entries, current, agents, nOps>>

CodecNext ==
    \/ \E m \in CodecMessages : Serialize(m)
    \/ ParseSerialized
    \/ \E raw \in CodecTexts : ParseText(raw)

CodecSpec == Init /\ [][CodecNext]_vars

(***************************************************************************)
(* Properties                                                              *)
(***************************************************************************)
IsPrefix(p, s) == Len(p) <= Len(s) /\ SubSeq(s, 1, Len(p)) = p

StartsWith(s, p) == IsPrefix(p, s)

Contains(s, sub) ==
    \E i \in 1..(Len(s) - Len(sub) + 1) : SubSeq(s, i, i + Len(sub) - 1) = sub

\* A non-empty text of word characters and hyphens.
IsToken(s) == s # <<>> /\ \A i \in 1..Len(s) : s[i] \in TokenChars

\* ---- The codec (CodecSpec) ----

\* The messages the round trip is claimed for.
ValidForRoundTrip(m) ==
    /\ upper(m.performative) \in {REQUEST, INFORM}
    /\ IsToken(m.sender)
    /\ IsToken(m.receiver)

\* C1 (as claimed): for every message whose performative is REQUEST or
\* INFORM in any case and whose sender and receiver are tokens, whatever its
\* content, parse(serialize(m)) succeeds and returns the same sender,
\* receiver and content with the performative upper-cased.
C1_RoundTrip ==
    (last.op = "parse" /\ last.roundtrip /\ ValidForRoundTrip(last.message))
    => /\ last.result.ok
       /\ last.result.message =
              ACLMessage(upper(last.message.performative), last.message.sender,
                         last.message.receiver, last.message.content)

\* C9: serialize returns exactly (performative P :sender S :receiver R
\* :content "E"), P the performative upper-cased, S and R verbatim, E the
\* content with each backslash doubled and each quote preceded by a
\* backslash and no other character altered, whatever the four fields are.
EscapedChar(c) ==
    IF c = "\\" THEN <<"\\", "\\">> ELSE IF c = "\"" THEN <<"\\", "\"">> ELSE <<c>>

RECURSIVE EscapedText(_)
EscapedText(s) == IF s = <<>> THEN <<>> ELSE EscapedChar(Head(s)) \o EscapedText(Tail(s))

C9_SerializeExact ==
    last.op = "serialize"
    => last.raw =
         <<"(", "p", "e", "r", "f", "o", "r", "m", "a", "t", "i", "v", "e", " ">>
         \o upper(last.message.performative)
         \o <<" ", ":", "s", "e", "n", "d", "e", "r", " ">> \o last.message.sender
         \o <<" ", ":", "r", "e", "c", "e", "i", "v", "e", "r", " ">> \o last.message.receiver
         \o <<" ", ":", "c", "o", "n", "t", "e", "n", "t", " ", "\"">>
         \o EscapedText(last.message.content) \o <<"\"", ")">>

\* A serialized message whose sender and receiver are no tokens, whose
\* performative is unsupported and whose content holds a quote and a
\* backslash.
C9_Witness ==
    /\ last.op = "serialize"
    /\ ~IsToken(last.message.sender)
    /\ ~IsToken(last.message.receiver)
    /\ upper(last.message.performative) \notin {REQUEST, INFORM}
    /\ last.message.content = <<"\"", "\\">>
    /\ Len(last.raw) > 0

\* C5: parse raises a format error for every text that matches the pattern
\* and whose performative, upper-cased, is neither REQUEST nor INFORM; and
\* the performative of every message parse returns is upper-case and one of
\* the two.
C5_UnsupportedPerformative ==
    last.op = "parse"
    => /\ \A match \in {ACL_PATTERN(strip(last.raw))} :
            (match.matched /\ upper(match.performative) \notin {REQUEST, INFORM})
            => /\ ~last.result.ok
               /\ last.result.exc = "ValueError"
               /\ last.result.detail =
                      <<"U", "n", "s", "u", "p", "p", "o", "r", "t", "e", "d", " ", "p", "e",
                        "r", "f", "o", "r", "m", "a", "t", "i", "v", "e", ":", " ">>
                      \o upper(match.performative)
       /\ last.result.ok
            => /\ last.result.message.performative \in {REQUEST, INFORM}
               /\ last.result.message.performative = upper(last.result.message.performative)

\* A well-formed PROPOSE text was parsed and rejected.
C5_Witness ==
    /\ last.op = "parse"
    /\ ACL_PATTERN(strip(last.raw)).matched
    /\ ACL_PATTERN(strip(last.raw)).performative = Propose
    /\ ~last.result.ok

\* ---- The agents (Spec) ----

\* The last call ran Agent.receive: it was a receive, or a send that
\* reached the target.
ReceiveCalled == last.op = "receive" \/ (last.op = "send" /\ last.delivered)

\* The agent whose receive ran, and the number of entries when it began.
ReceivingAgent == agents[IF last.op = "send" THEN last.other ELSE last.self]

ReceiveBefore == IF last.op = "send" THEN last.before + 1 ELSE last.before

\* The entries the receive call appended.
ReceiveAppended == SubSeq(entries, ReceiveBefore + 1, Len(entries))

\* An entry is "[" timestamp "] " name ": " event, the timestamp 19 long.
AuthoredBy(entry, name) == SubSeq(entry, 23, 24 + Len(name)) = name \o <<":", " ">>

EventOf(entry, name) == SubSeq(entry, 25 + Len(name), Len(entry))

RejectedText == <<"R", "e", "j", "e", "c", "t", "e", "d", " ", "m", "a", "l", "f", "o", "r", "m", "e",
      "d", " ", "A", "C", "L", " ", "m", "e", "s", "s", "a", "g", "e">>

IsHandlerEvent(event) ==
    \/ StartsWith(event, <<"P", "r", "o", "c", "e", "s", "s", "i", "n", "g", " ", "R", "E",
                           "Q", "U", "E", "S", "T", " ", "a", "c", "t", "i", "o", "n", ":",
                           " ">>)
    \/ StartsWith(event, <<"A", "c", "k", "n", "o", "w", "l", "e", "d", "g", "e", "d", " ",
                           "I", "N", "F", "O", "R", "M", " ", "u", "p", "d", "a", "t", "e",
                           ":", " ">>)
    \/ StartsWith(event, <<"N", "o", " ", "h", "a", "n", "d", "l", "e", "r", " ", "f", "o",
                           "r", " ", "p", "e", "r", "f", "o", "r", "m", "a", "t", "i", "v",
                           "e", ":", " ">>)

\* C2: for every text parse rejects, receive appends exactly one entry,
\* authored by the receiving agent and containing "Rejected malformed ACL
\* message", appends no handler entry, and no exception leaves receive.
C2_RejectedOnce ==
    (ReceiveCalled /\ ~parse(last.raw).ok)
    => /\ last.raised = ""
       /\ Len(ReceiveAppended) = 1
       /\ \A e \in Range(ReceiveAppended) :
            /\ AuthoredBy(e, ReceivingAgent.name)
            /\ Contains(e, RejectedText)
            /\ ~IsHandlerEvent(EventOf(e, ReceivingAgent.name))

\* A text whose content ends in a truncated \x escape was received: the
\* failure is in the unescaping, not in the pattern or the performative.
C2_Witness ==
    /\ last.op = "receive"
    /\ ACL_PATTERN(strip(last.raw)).matched
    /\ parse(last.raw).exc = "UnicodeDecodeError"
    /\ Len(entries) = last.before + 1
    /\ Contains(entries[Len(entries)], RejectedText)

\* C3: receiving a well-formed message whose receiver is not the agent's
\* name appends exactly one entry, authored by that agent, with the event
\* "Ignored message for <receiver> from <sender> | <content>"; no
\* "Received" entry and no handler entry is appended.
C3_IgnoredOnce ==
    (ReceiveCalled /\ parse(last.raw).ok
       /\ parse(last.raw).message.receiver # ReceivingAgent.name)
    => /\ last.raised = ""
       /\ Len(ReceiveAppended) = 1
       /\ \A e \in Range(ReceiveAppended), m \in {parse(last.raw).message} :
            /\ AuthoredBy(e, ReceivingAgent.name)
            /\ EventOf(e, ReceivingAgent.name) =
                   <<"I", "g", "n", "o", "r", "e", "d", " ", "m", "e", "s", "s", "a", "g",
                     "e", " ", "f", "o", "r", " ">> \o m.receiver
                   \o <<" ", "f", "r", "o", "m", " ">> \o m.sender \o <<" ", "|", " ">> \o m.content

\* WorkerAgent received the test's message for OtherAgent.
C3_Witness ==
    /\ last.op = "receive"
    /\ ReceivingAgent.name = WorkerAgent
    /\ parse(last.raw).ok
    /\ Len(entries) = last.before + 1
    /\ Contains(entries[Len(entries)], <<"I", "g", "n", "o", "r", "e", "d", " ", "m", "e", "s", "s", "a", "g", "e",
              " ", "f", "o", "r", " ", "O", "t", "h", "e", "r", "A", "g", "e", "n", "t">>)

\* C4: a send of a message whose sender field is not the calling agent's
\* name raises the sender-mismatch error, leaves the entries and the clock
\* as they were, and does not call the target's receive.
C4_MismatchNoEffect ==
    [][(last'.op = "send" /\ last'.message.sender # agents[last'.self].name)
       => /\ last'.raised = "ValueError"
          /\ ~last'.delivered
          /\ entries' = entries
          /\ current' = current]_vars

\* A mismatching send was made after an earlier call had logged.
C4_Witness ==
    /\ last.op = "send"
    /\ last.message.sender # agents[last.self].name
    /\ last.raised = "ValueError"
    /\ Len(entries) > 0
    /\ Len(entries) = last.before

\* A send the exchange is claimed for: an allowed performative in any case,
\* a token sender that is the sending agent, the target as receiver.
ValidSend(call) ==
    /\ call.op = "send"
    /\ upper(call.message.performative) \in {REQUEST, INFORM}
    /\ IsToken(call.message.sender)
    /\ call.message.sender = agents[call.self].name
    /\ call.message.receiver = agents[call.other].name

\* The handler entry a performative leads to.
HandlerEventOf(performative) ==
    IF performative = REQUEST
    THEN <<"P", "r", "o", "c", "e", "s", "s", "i", "n", "g", " ", "R", "E", "Q", "U", "E",
           "S", "T", " ", "a", "c", "t", "i", "o", "n", ":", " ">>
    ELSE <<"A", "c", "k", "n", "o", "w", "l", "e", "d", "g", "e", "d", " ", "I", "N", "F",
           "O", "R", "M", " ", "u", "p", "d", "a", "t", "e", ":", " ">>

\* The three entries of a delivered exchange, in order.
IsExchange(block, call) ==
    /\ Len(block) = 3
    /\ AuthoredBy(block[1], agents[call.self].name)
    /\ StartsWith(EventOf(block[1], agents[call.self].name),
                  <<"S", "e", "n", "t", " ">> \o upper(call.message.performative)
                  \o <<" ", "t", "o", " ">> \o agents[call.other].name)
    /\ AuthoredBy(block[2], agents[call.other].name)
    /\ StartsWith(EventOf(block[2], agents[call.other].name),
                  <<"R", "e", "c", "e", "i", "v", "e", "d", " ">> \o upper(call.message.performative)
                  \o <<" ", "f", "r", "o", "m", " ">> \o agents[call.self].name)
    /\ AuthoredBy(block[3], agents[call.other].name)
    /\ StartsWith(EventOf(block[3], agents[call.other].name),
                  HandlerEventOf(upper(call.message.performative)))

\* C6: every send of a valid message extends the record by exactly three
\* entries, in this order: "Sent P to <target>" by the sender, "Received P
\* from <sender>" by the target, the target's handler entry.  The entries
\* before the send stay in front, so the blocks of successive sends follow
\* one another in call order and do not interleave.
C6_ExchangeOrder ==
    [][ValidSend(last')
       => /\ Len(entries') = Len(entries) + 3
          /\ SubSeq(entries', 1, Len(entries)) = entries
          /\ IsExchange(SubSeq(entries', Len(entries) + 1, Len(entries')), last')]_vars

\* The demo: the request, then the reply; the three INFORM entries follow
\* the three REQUEST entries.
C6_Witness ==
    /\ last.op = "send"
    /\ last.message = DemoInform
    /\ Len(entries) = 6
    /\ Contains(entries[1], <<"P", "l", "a", "n", "n", "e", "r", "A", "g", "e", "n", "t", ":",
                           " ", "S", "e", "n", "t", " ", "R", "E", "Q", "U", "E", "S", "T",
                           " ", "t", "o", " ", "W", "o", "r", "k", "e", "r", "A", "g", "e",
                           "n", "t">>)
    /\ Contains(entries[2], <<"W", "o", "r", "k", "e", "r", "A", "g", "e", "n", "t", ":", " ",
                           "R", "e", "c", "e", "i", "v", "e", "d", " ", "R", "E", "Q", "U",
                           "E", "S", "T", " ", "f", "r", "o", "m", " ", "P", "l", "a", "n",
                           "n", "e", "r", "A", "g", "e", "n", "t">>)
    /\ Contains(entries[3], <<"W", "o", "r", "k", "e", "r", "A", "g", "e", "n", "t", ":", " ",
                           "P", "r", "o", "c", "e", "s", "s", "i", "n", "g", " ", "R", "E",
                           "Q", "U", "E", "S", "T", " ", "a", "c", "t", "i", "o", "n">>)
    /\ Contains(entries[4], <<"W", "o", "r", "k", "e", "r", "A", "g", "e", "n", "t", ":", " ",
                           "S", "e", "n", "t", " ", "I", "N", "F", "O", "R", "M", " ", "t",
                           "o", " ", "P", "l", "a", "n", "n", "e", "r", "A", "g", "e", "n",
                           "t">>)
    /\ Contains(entries[5], <<"P", "l", "a", "n", "n", "e", "r", "A", "g", "e", "n", "t", ":",
                           " ", "R", "e", "c", "e", "i", "v", "e", "d", " ", "I", "N", "F",
                           "O", "R", "M", " ", "f", "r", "o", "m", " ", "W", "o", "r", "k",
                           "e", "r", "A", "g", "e", "n", "t">>)
    /\ Contains(entries[6], <<"P", "l", "a", "n", "n", "e", "r", "A", "g", "e", "n", "t", ":",
                           " ", "A", "c", "k", "n", "o", "w", "l", "e", "d", "g", "e", "d",
                           " ", "I", "N", "F", "O", "R", "M", " ", "u", "p", "d", "a", "t",
                           "e">>)

\* The timestamp of the i-th second after the start, within the first hour.
StampAfter(i) ==
    <<"[", "2", "0", "2", "6", "-", "0", "1", "-", "0", "1", " ", "1", "0", ":">>
    \o TwoDigits(i \div 60) \o <<":">> \o TwoDigits(i % 60) \o <<"]">>

\* C7: the i-th entry, counted from 0, carries the timestamp of the start
\* plus i seconds, and the logger's current time is the start plus as many
\* seconds as there are entries.
C7_DeterministicClock ==
    /\ current = StartTime + Len(entries)
    /\ \A i \in 1..Len(entries) : IsPrefix(StampAfter(i - 1), entries[i])

\* The six entries of the demo run from 10:00:00 to 10:00:05.
C7_Witness ==
    /\ Len(entries) = 6
    /\ last.message = DemoInform
    /\ last.before = 3
    /\ IsPrefix(<<"[", "2", "0", "2", "6", "-", "0", "1", "-", "0", "1", " ", "1", "0",
                  ":", "0", "0", ":", "0", "0", "]">>, entries[1])
    /\ IsPrefix(<<"[", "2", "0", "2", "6", "-", "0", "1", "-", "0", "1", " ", "1", "0",
                  ":", "0", "0", ":", "0", "5", "]">>, entries[6])
    /\ current = StartTime + 6

\* C8: every step leaves the entries already in the record unchanged and in
\* place: the record after the step is the record before it with zero or
\* more entries added at the end.
C8_AppendOnly ==
    [][/\ Len(entries) <= Len(entries')
       /\ SubSeq(entries', 1, Len(entries)) = entries]_vars

\* A call extended a record that already held entries.
C8_Witness ==
    /\ last.before > 0
    /\ Len(entries) > last.before
    /\ last.op = "receive"

\* C10: every call of receive returns on exactly one of the paths REJECTED,
\* IGNORED and DISPATCHED.  REJECTED and IGNORED append one entry, which is
\* no handler entry; DISPATCHED appends two, the "Received" entry and then
\* one handler entry.
C10_Trichotomy ==
    ReceiveCalled
    => /\ last.raised = ""
       /\ last.path \in {"REJECTED", "IGNORED", "DISPATCHED"}
       /\ \A e \in Range(ReceiveAppended) : AuthoredBy(e, ReceivingAgent.name)
       /\ last.path = "REJECTED"
            => /\ Len(ReceiveAppended) = 1
               /\ StartsWith(EventOf(ReceiveAppended[1], ReceivingAgent.name), RejectedText)
       /\ last.path = "IGNORED"
            => /\ Len(ReceiveAppended) = 1
               /\ StartsWith(EventOf(ReceiveAppended[1], ReceivingAgent.name),
                             <<"I", "g", "n", "o", "r", "e", "d", " ", "m", "e", "s", "s",
                               "a", "g", "e", " ", "f", "o", "r", " ">>)
       /\ last.path = "DISPATCHED"
            => /\ Len(ReceiveAppended) = 2
               /\ StartsWith(EventOf(ReceiveAppended[1], ReceivingAgent.name),
                             <<"R", "e", "c", "e", "i", "v", "e", "d", " ">>)
               /\ IsHandlerEvent(EventOf(ReceiveAppended[2], ReceivingAgent.name))
               /\ last.handler # "none"

\* A text received directly was dispatched to the INFORM handler.
C10_Witness ==
    /\ last.op = "receive"
    /\ last.path = "DISPATCHED"
    /\ last.handler = "_handle_inform"
    /\ Len(entries) = last.before + 2

NoHandlerText == <<"N", "o", " ", "h", "a", "n", "d", "l", "e", "r", " ", "f", "o", "r", " ", "p", "e",
      "r", "f", "o", "r", "m", "a", "t", "i", "v", "e">>

\* C11: every performative parse can return has an entry in every agent's
\* handler mapping, the handler of a message received for the agent is
\* found, and the record never holds a "No handler for performative" entry.
C11_HandlersCoverAllowed ==
    /\ \A a \in AgentIds : ALLOWED_PERFORMATIVES \subseteq DOMAIN agents[a].handlers
    /\ \A i \in 1..Len(entries), a \in AgentIds :
         AuthoredBy(entries[i], agents[a].name)
         => ~StartsWith(EventOf(entries[i], agents[a].name), NoHandlerText)
    /\ (ReceiveCalled /\ parse(last.raw).ok)
         => parse(last.raw).message.performative \in DOMAIN ReceivingAgent.handlers
    /\ last.path # "NO_HANDLER"

\* A reply sent in lower case was parsed, found its handler and was
\* dispatched to it.
C11_Witness ==
    /\ last.op = "send"
    /\ last.message.performative = <<"i", "n", "f", "o", "r", "m">>
    /\ parse(last.raw).message.performative = INFORM
    /\ last.path = "DISPATCHED"
    /\ last.handler = "_handle_inform"

ProcessingText == <<"P", "r", "o", "c", "e", "s", "s", "i", "n", "g", " ", "R", "E", "Q", "U", "E", "S",
      "T", " ", "a", "c", "t", "i", "o", "n", ":", " ">>

AcknowledgedText == <<"A", "c", "k", "n", "o", "w", "l", "e", "d", "g", "e", "d", " ", "I", "N", "F", "O",
      "R", "M", " ", "u", "p", "d", "a", "t", "e", ":", " ">>

\* The content the handler entry is claimed to show: that of the message
\* handed to send, or, for a text received from outside, the parsed one.
SentContent == IF last.op = "send" THEN last.message.content ELSE parse(last.raw).message.content

\* C12 (as claimed): a dispatched REQUEST appends "Processing REQUEST
\* action: <content>" and no "Acknowledged INFORM update" entry, a dispatched
\* INFORM appends "Acknowledged INFORM update: <content>" and no "Processing
\* REQUEST action" entry, and <content> is the content of the message that
\* was sent.
C12_HandlerByPerformative ==
    (ReceiveCalled /\ last.path = "DISPATCHED")
    => \A event \in {EventOf(entries[Len(entries)], ReceivingAgent.name)} :
         /\ parse(last.raw).message.performative = REQUEST
              => /\ event = ProcessingText \o SentContent
                 /\ last.handler = "_handle_request"
         /\ parse(last.raw).message.performative = INFORM
              => /\ event = AcknowledgedText \o SentContent
                 /\ last.handler = "_handle_inform"

\* ---- The content body and the separators of a wire text (CodecSpec) ----

QuotesOf(raw) == {i \in 1..Len(raw) : raw[i] = "\""}

\* The content body of a wire text: what stands between its first and its
\* last quote.
BodyOf(raw) ==
    IF Cardinality(QuotesOf(raw)) < 2 THEN <<>>
    ELSE SubSeq(raw, MinOf(QuotesOf(raw)) + 1, MaxOf(QuotesOf(raw)) - 1)

\* The text with an empty body in place of its own.
WithEmptyBody(raw) ==
    SubSeq(raw, 1, MinOf(QuotesOf(raw))) \o SubSeq(raw, MaxOf(QuotesOf(raw)), Len(raw))

\* Everything but the body is acceptable: with an empty body the text parses.
Framed(raw) == Cardinality(QuotesOf(raw)) >= 2 /\ parse(WithEmptyBody(raw)).ok

\* Every quote and backslash of the body is the second half of a pair, or a
\* backslash that begins one; a newline cannot be the second half.
RECURSIVE WellEscaped(_)
WellEscaped(body) ==
    IF body = <<>> THEN TRUE
    ELSE IF body[1] = "\"" THEN FALSE
    ELSE IF body[1] = "\\"
         THEN Len(body) >= 2 /\ body[2] # "\n" /\ WellEscaped(SubSeq(body, 3, Len(body)))
    ELSE WellEscaped(Tail(body))

\* The characters that follow the backslash in the pairs of a body.
RECURSIVE EscapedChars(_)
EscapedChars(body) ==
    IF body = <<>> THEN {}
    ELSE IF body[1] = "\\"
         THEN IF Len(body) >= 2
              THEN {body[2]} \cup EscapedChars(SubSeq(body, 3, Len(body))) ELSE {}
    ELSE EscapedChars(Tail(body))

\* C13 (as claimed): parse accepts a content body only if every backslash
\* in it is part of a pair \" or \\; a body with a backslash followed by
\* any other character, \n or \x for example, is rejected.
C13_OnlyQuoteAndBackslashPairs ==
    (last.op = "parse" /\ Framed(last.raw) /\ last.result.ok)
    => \A body \in {BodyOf(last.raw)} :
         WellEscaped(body) /\ EscapedChars(body) \subseteq {"\"", "\\"}

\* C13 (amended): the pattern accepts a content body exactly if every quote
\* and backslash in it belongs to a pair of a backslash and any character
\* but a newline; parse then decodes the pairs with the unicode_escape
\* codec: a body whose pairs are \", \\ and \n is accepted and each \n
\* comes out as a newline, while a \x with no hexadecimal digits after it
\* is rejected with a UnicodeDecodeError, a ValueError.
C13_AnyEscapePair ==
    (last.op = "parse" /\ Framed(last.raw))
    => \A body \in {BodyOf(last.raw)} :
         /\ ACL_PATTERN(strip(last.raw)).matched <=> WellEscaped(body)
         /\ last.result.ok => WellEscaped(body)
         /\ (WellEscaped(body) /\ EscapedChars(body) \subseteq {"\"", "\\", "n"})
              => last.result.ok
         /\ (last.result.ok /\ "n" \in EscapedChars(body))
              => "\n" \in Range(last.result.message.content)
         /\ (WellEscaped(body) /\ "x" \in EscapedChars(body)
               /\ Range(body) \cap HexDigits = {})
              => ~last.result.ok /\ last.result.exc = "UnicodeDecodeError"

\* The body \n was parsed and came out as a newline.
C13_Witness ==
    /\ last.op = "parse"
    /\ Framed(last.raw)
    /\ BodyOf(last.raw) = <<"\\", "n">>
    /\ last.result.ok
    /\ last.result.message.content = <<"\n">>

\* ---- Sends the codec cannot decode, and sends to another name (Spec) ----

\* The entry send logs before it hands the text over.
SentEvent(call) ==
    <<"S", "e", "n", "t", " ">> \o upper(call.message.performative)
    \o <<" ", "t", "o", " ">> \o agents[call.other].name \o <<" ", "|", " ">> \o call.message.content

\* C14: a send of a message whose sender is the sending agent's name returns
\* normally and reaches the target, whatever the performative, the receiver
\* and the content; if the target cannot decode the text, the record gains
\* the sender's "Sent" entry and then exactly one "Rejected malformed ACL
\* message" entry of the target.
C14_OnlySenderMismatchRaises ==
    (last.op = "send" /\ last.message.sender = agents[last.self].name)
    => /\ last.raised = ""
       /\ last.delivered
       /\ last.raw = serialize(last.message)
       /\ ~parse(last.raw).ok
            => /\ Len(entries) = last.before + 2
               /\ AuthoredBy(entries[last.before + 1], agents[last.self].name)
               /\ EventOf(entries[last.before + 1], agents[last.self].name) = SentEvent(last)
               /\ AuthoredBy(entries[last.before + 2], agents[last.other].name)
               /\ StartsWith(EventOf(entries[last.before + 2], agents[last.other].name),
                             RejectedText)

\* A message whose receiver holds a space was sent and rejected by the
\* target, after an earlier send of an unsupported performative was.
C14_Witness ==
    /\ last.op = "send"
    /\ last.message.sender = agents[last.self].name
    /\ ~IsToken(last.message.receiver)
    /\ last.raised = ""
    /\ last.path = "REJECTED"
    /\ last.before = 2
    /\ Contains(entries[1], <<"S", "e", "n", "t", " ", "P", "R", "O", "P", "O", "S", "E", " ",
                           "t", "o", " ">>)
    /\ Contains(entries[2], <<"U", "n", "s", "u", "p", "p", "o", "r", "t", "e", "d", " ", "p",
                           "e", "r", "f", "o", "r", "m", "a", "t", "i", "v", "e", ":", " ",
                           "P", "R", "O", "P", "O", "S", "E">>)

\* The wire form with single spaces, rebuilt from the groups of a match.
ExactForm(match) ==
    WireText(<<>>, SingleSpaces, match.performative, match.sender, match.receiver,
             match.content, <<>>)

\* C15 (as claimed): parse accepts only the exact wire form after trimming:
\* the fields separated by single spaces, so that a text with several
\* spaces, tabs or newlines between the fields is rejected.
C15_ExactFormOnly ==
    (last.op = "parse" /\ last.result.ok)
    => \A match \in {ACL_PATTERN(strip(last.raw))} : strip(last.raw) = ExactForm(match)

\* A run of blanks: spaces, tabs, newlines.
IsBlankRun(sep) == sep # <<>> /\ Range(sep) \subseteq {" ", "\t", "\n"}

\* C15 (amended): after trimming, the pattern matches a text exactly if each
\* of the seven places between its pieces (after "(performative", around
\* ":sender", ":receiver" and before and after ":content") holds a
\* non-empty run of whitespace, of any length and of spaces, tabs or
\* newlines alike, and nothing but whitespace follows the closing ")"; a
\* text with a separator missing is rejected, and a matched text parses if
\* its performative is allowed.
C15_WhitespaceRuns ==
    last.op = "parse"
    => \A lt \in CodecMargins, seps \in CodecSeps, p \in CodecPerformatives,
          body \in {<<>>, <<"h", "i">>} :
         last.raw = WireText(lt[1], seps, p, <<"A", "1">>, <<"w", "-", "2">>, body, lt[2])
         => /\ last.result.ok
                 <=> /\ \A k \in 1..7 : IsBlankRun(seps[k])
                     /\ Range(lt[2]) \subseteq {" ", "\t", "\n"}
                     /\ upper(p) \in {REQUEST, INFORM}
            /\ last.result.ok
                 => /\ last.result.message.sender = <<"A", "1">>
                    /\ last.result.message.receiver = <<"w", "-", "2">>
                    /\ last.result.message.content = body

\* A text with a tab and a newline between two of its pieces was parsed
\* and accepted.
C15_Witness ==
    /\ last.op = "parse"
    /\ ~last.roundtrip
    /\ last.result.ok
    /\ "\t" \in Range(strip(last.raw))
    /\ strip(last.raw) # ExactForm(ACL_PATTERN(strip(last.raw)))

\* C16: a call of receive changes nothing but the event record: every
\* agent's name and handler mapping stay as they were, every entry the call
\* appends, on the rejected, the ignored and the dispatched path alike, is
\* authored by the receiving agent, so none comes from another agent's
\* receive, and the entries from before the call stay.
C16_ReceiveFrame ==
    [][ReceiveCalled'
       => /\ agents' = agents
          /\ SubSeq(entries', 1, Len(entries)) = entries
          /\ Len(entries') - ReceiveBefore' \in {1, 2}
          /\ \A i \in (ReceiveBefore' + 1)..Len(entries') :
               /\ AuthoredBy(entries'[i], ReceivingAgent'.name)
               /\ \A a \in AgentIds :
                    agents[a].name # ReceivingAgent'.name
                    => ~AuthoredBy(entries'[i], agents[a].name)]_vars

\* PlannerAgent received and dispatched a text from outside when the record
\* already held an entry of WorkerAgent.
C16_Witness ==
    /\ last.op = "receive"
    /\ ReceivingAgent.name = PlannerAgent
    /\ last.path = "DISPATCHED"
    /\ last.before > 0
    /\ AuthoredBy(entries[1], WorkerAgent)
    /\ agents["worker_agent"] = Agent(WorkerAgent)

\* C17: send does not compare the receiver field with the target.  A send
\* to target T of a valid message whose sender is the sending agent and
\* whose receiver is a token other than T's name returns normally, and the
\* record gains exactly two entries: the sender's "Sent P to T" entry, then
\* T's "Ignored message for <receiver>" entry; nothing is dispatched.
C17_SendToOtherName ==
    (/\ last.op = "send"
     /\ upper(last.message.performative) \in {REQUEST, INFORM}
     /\ last.message.sender = agents[last.self].name
     /\ IsToken(last.message.receiver)
     /\ last.message.receiver # agents[last.other].name)
    => /\ last.raised = ""
       /\ last.delivered
       /\ Len(entries) = last.before + 2
       /\ AuthoredBy(entries[last.before + 1], agents[last.self].name)
       /\ StartsWith(EventOf(entries[last.before + 1], agents[last.self].name),
                     <<"S", "e", "n", "t", " ">> \o upper(last.message.performative)
                     \o <<" ", "t", "o", " ">> \o agents[last.other].name)
       /\ AuthoredBy(entries[last.before + 2], agents[last.other].name)
       /\ StartsWith(EventOf(entries[last.before + 2], agents[last.other].name),
                     <<"I", "g", "n", "o", "r", "e", "d", " ", "m", "e", "s", "s", "a",
                       "g", "e", " ", "f", "o", "r", " ">>
                     \o last.message.receiver)
       /\ last.path = "IGNORED"
       /\ last.handler = "none"

\* WorkerAgent sent PlannerAgent a request addressed to OtherAgent.
C17_Witness ==
    /\ last.op = "send"
    /\ agents[last.self].name = WorkerAgent
    /\ last.message.sender = WorkerAgent
    /\ last.message.receiver = OtherAgent
    /\ last.path = "IGNORED"
    /\ Len(entries) = last.before + 2
    /\ Contains(entries[Len(entries)], <<"P", "l", "a", "n", "n", "e", "r", "A", "g", "e", "n", "t", ":", " ", "I", "g",
          "n", "o", "r", "e", "d", " ", "m", "e", "s", "s", "a", "g", "e", " ", "f", "o",
          "r", " ", "O", "t", "h", "e", "r", "A", "g", "e", "n", "t", " ", "f", "r", "o",
          "m", " ", "W", "o", "r", "k", "e", "r", "A", "g", "e", "n", "t">>)

====
